---- MODULE Spec2Model ----
(***************************************************************************)
(* Model of lambda/document_processor.py: the SQS-triggered batch handler  *)
(* (lambda_handler), the per-document pipeline (process_document) and the  *)
(* completion parser (parse_json_response).                                *)
(*                                                                         *)
(* Python strings are sequences of one-character strings, so that find,    *)
(* slicing, strip and json.loads are computed character by character.      *)
(* Python values are tagged tuples: <<"str", chars>>, <<"int", n>>,        *)
(* <<"obj", dict>>, <<"none">>; a dict is a function from key strings.     *)
(***************************************************************************)
EXTENDS Integers, Sequences, FiniteSets, TLC

VARIABLES
    event,      \* the SQS event handed to lambda_handler
    files,      \* the packaged schema.json and prompt.txt
    s3objects,  \* the bucket: object key -> the object stored under it
    pc,         \* control point of lambda_handler / process_document
    i,          \* index in event['Records'] of the current sqs_record
    j,          \* index in s3_event['Records'] of the current s3_record
    results,    \* lambda_handler's results list
    errors,     \* lambda_handler's errors list
    loc,        \* locals of the running process_document call
    table,      \* the items the DynamoDB table has accepted, in order
    uuids,      \* number of uuid4 values drawn so far
    log,        \* calls made so far and how they ended, in order
    response,   \* what lambda_handler returned
    content,    \* the text given to parse_json_response (ParseSpec)
    parsed,     \* what parse_json_response returned or raised (ParseSpec)
    ppc         \* control point of the parse_json_response call (ParseSpec)

handlerVars == <<event, files, s3objects, pc, i, j, results, errors, loc, table, uuids, log, response>>

parseVars == <<content, parsed, ppc>>

vars == <<handlerVars, parseVars>>

(***************************************************************************)
(* Bounds of the model.                                                    *)
(***************************************************************************)
\* longest completion text, in segments, given to parse_json_response
MaxSegs == 5

\* size of the largest batch: its sqs_records plus the notifications in them
MaxItems == 4

(***************************************************************************)
(* str primitives used by parse_json_response (0-based indices as in       *)
(* Python; Seq positions are index + 1).                                   *)
(***************************************************************************)
Min(S) == CHOOSE x \in S : \A y \in S : x <= y

Whitespace == {" ", "\n", "\t", "\r"}

\* the backquote character (the one character a TLA+ string cannot hold)
BQ == "BACKQUOTE"

Fence == <<BQ, BQ, BQ>>

JsonFence == <<BQ, BQ, BQ, "j", "s", "o", "n">>

\* s[p : p + len(sub)] == sub
MatchAt(s, sub, p) ==
    /\ p >= 0
    /\ p + Len(sub) <= Len(s)
    /\ \A k \in 1..Len(sub) : s[p + k] = sub[k]

\* s.find(sub, start): lowest index >= start where sub occurs, else -1
Find(s, sub, start) ==
    LET hits == {p \in start..(Len(s) - Len(sub)) : MatchAt(s, sub, p)}
    IN  IF hits = {} THEN -1 ELSE Min(hits)

\* sub in s
Contains(s, sub) == Find(s, sub, 0) # -1

\* s[start:end] for start >= 0 and any integer end (negative counts from the end)
Slice(s, start, end) ==
    LET n  == Len(s)
        e0 == IF end < 0 THEN end + n ELSE end
        hi == IF e0 < 0 THEN 0 ELSE IF e0 > n THEN n ELSE e0
        lo == IF start > n THEN n ELSE start
    IN  IF hi <= lo THEN <<>> ELSE SubSeq(s, lo + 1, hi)

\* s.strip()
Strip(s) ==
    LET keep == {p \in 1..Len(s) : s[p] \notin Whitespace}
    IN  IF keep = {} THEN <<>>
        ELSE SubSeq(s, Min(keep), CHOOSE p \in keep : \A q \in keep : q <= p)

(***************************************************************************)
(* json.loads on the characters the texts of the model are made of:        *)
(* objects, strings without escapes, non-negative integers, insignificant  *)
(* whitespace.  Anything else is a JSONDecodeError.                        *)
(***************************************************************************)
Digits == {"0", "1", "2", "3", "4", "5", "6", "7", "8", "9"}

DigitVal(c) ==
    CASE c = "0" -> 0 [] c = "1" -> 1 [] c = "2" -> 2 [] c = "3" -> 3
      [] c = "4" -> 4 [] c = "5" -> 5 [] c = "6" -> 6 [] c = "7" -> 7
      [] c = "8" -> 8 [] c = "9" -> 9

None == <<"none">>

EmptyDict == [k \in {} |-> None]

DecodeFail == [ok |-> FALSE, next |-> 0, val |-> None]

\* first position >= p that holds no whitespace (Len(s) + 1 when there is none)
SkipWs(s, p) ==
    Min({q \in p..(Len(s) + 1) : q > Len(s) \/ s[q] \notin Whitespace})

\* a string literal opening at position p
ScanString(s, p) ==
    LET closes == {q \in (p + 1)..Len(s) : s[q] = "\""}
    IN  IF closes = {} THEN DecodeFail
        ELSE LET q == Min(closes)
                 body == SubSeq(s, p + 1, q - 1)
             IN  IF \E k \in 1..Len(body) : body[k] \in {"\n", "\t", "\r", "\\"}
                 THEN DecodeFail
                 ELSE [ok |-> TRUE, next |-> q + 1, val |-> <<"str", body>>]

RECURSIVE DigitsVal(_)
DigitsVal(ds) ==
    IF ds = <<>> THEN 0
    ELSE 10 * DigitsVal(SubSeq(ds, 1, Len(ds) - 1)) + DigitVal(ds[Len(ds)])

\* an integer literal starting at position p (a leading 0 stands alone)
ScanNumber(s, p) ==
    LET stop == Min({q \in (p + 1)..(Len(s) + 1) : q > Len(s) \/ s[q] \notin Digits})
        q    == IF s[p] = "0" THEN p + 1 ELSE stop
    IN  [ok |-> TRUE, next |-> q, val |-> <<"int", DigitsVal(SubSeq(s, p, q - 1))>>]

RECURSIVE ScanValue(_, _), ScanMembers(_, _, _)

\* the members of an object, from the first key at position p; a repeated key
\* keeps its last value (dict semantics)
ScanMembers(s, p, acc) ==
    IF p > Len(s) \/ s[p] # "\"" THEN DecodeFail
    ELSE LET k == ScanString(s, p)
         IN  IF ~k.ok THEN DecodeFail
             ELSE LET c == SkipWs(s, k.next)
                  IN  IF c > Len(s) \/ s[c] # ":" THEN DecodeFail
                      ELSE LET v == ScanValue(s, c + 1)
                           IN  IF ~v.ok THEN DecodeFail
                               ELSE LET t   == SkipWs(s, v.next)
                                        dom == (DOMAIN acc) \cup {k.val[2]}
                                        upd == [n \in dom |->
                                                  IF n = k.val[2] THEN v.val ELSE acc[n]]
                                    IN  IF t > Len(s) THEN DecodeFail
                                        ELSE IF s[t] = "}"
                                        THEN [ok |-> TRUE, next |-> t + 1,
                                              val |-> <<"obj", upd>>]
                                        ELSE IF s[t] = ","
                                        THEN ScanMembers(s, SkipWs(s, t + 1), upd)
                                        ELSE DecodeFail

\* a JSON value starting at or after position p
ScanValue(s, p) ==
    LET q == SkipWs(s, p)
    IN  IF q > Len(s) THEN DecodeFail
        ELSE IF s[q] = "{"
        THEN LET m == SkipWs(s, q + 1)
             IN  IF m <= Len(s) /\ s[m] = "}"
                 THEN [ok |-> TRUE, next |-> m + 1, val |-> <<"obj", EmptyDict>>]
                 ELSE ScanMembers(s, m, EmptyDict)
        ELSE IF s[q] = "\"" THEN ScanString(s, q)
        ELSE IF s[q] \in Digits THEN ScanNumber(s, q)
        ELSE DecodeFail

\* json.loads(s): one value, then nothing but whitespace
JsonLoads(s) ==
    LET v == ScanValue(s, 1)
    IN  IF v.ok /\ SkipWs(s, v.next) > Len(s)
        THEN [ok |-> TRUE, val |-> v.val]
        ELSE [ok |-> FALSE, val |-> None]

(***************************************************************************)
(* parse_json_response                                                     *)
(***************************************************************************)
\* the two fence tests in the opposite order: a generic fence wins
FenceCandidateGenericFirst(text) ==
    IF Contains(text, Fence)
    THEN LET start == Find(text, Fence, 0) + 3
             end   == Find(text, Fence, start)
         IN  Strip(Slice(text, start, end))
    ELSE text

\* the value of the local name `content` when json.loads is reached (line 138)
FenceCandidate(text) ==
    IF Contains(text, JsonFence)
    THEN LET start == Find(text, JsonFence, 0) + 7
             end   == Find(text, Fence, start)
         IN  Strip(Slice(text, start, end))
    ELSE IF Contains(text, Fence)
    THEN LET start == Find(text, Fence, 0) + 3
             end   == Find(text, Fence, start)
         IN  Strip(Slice(text, start, end))
    ELSE text

\* what the except branch (line 141) hands to json.loads: the name `content`,
\* which lines 132 and 136 have rebound to the fence candidate
FallbackInput(text, candidate) == candidate

\* parse_json_response(text): [ok, val]; ok = FALSE is a raised JSONDecodeError
ParseJsonResponse(text) ==
    LET candidate == FenceCandidate(text)
        first     == JsonLoads(candidate)
    IN  IF first.ok THEN first
        ELSE JsonLoads(FallbackInput(text, candidate))

(***************************************************************************)
(* The SQS event: a sequence of sqs_records.  body_json says whether       *)
(* sqs_record['body'] is JSON text, has_message whether the decoded body   *)
(* holds 'Message', message_json whether that is JSON text, has_records    *)
(* whether the decoded message holds 'Records'.                            *)
(***************************************************************************)
BucketName == <<"b">>

\* percent-encoded object keys as S3 writes them in notifications
EncodedKeys == {<<"a", "+", "b">>, <<"k", "%", "2", "B", "1">>}

EventTime == <<"t">>

S3Record(k) ==
    [has_bucket |-> TRUE, has_key |-> TRUE, has_time |-> TRUE,
     bucket |-> BucketName, key |-> k, eventTime |-> EventTime]

WellFormedRecords == {S3Record(k) : k \in EncodedKeys}

\* notifications that lack the bucket, the object key or the event time
MalformedRecords ==
    { [S3Record(<<"a", "+", "b">>) EXCEPT !.has_bucket = FALSE, !.bucket = <<>>],
      [S3Record(<<"a", "+", "b">>) EXCEPT !.has_key = FALSE, !.key = <<>>],
      [S3Record(<<"a", "+", "b">>) EXCEPT !.has_time = FALSE, !.eventTime = <<>>] }

SqsRecord(recs) ==
    [body_json |-> TRUE, has_message |-> TRUE, message_json |-> TRUE,
     has_records |-> TRUE, Records |-> recs]

UndecodableSqsRecords ==
    { [SqsRecord(<<>>) EXCEPT !.body_json = FALSE, !.has_message = FALSE,
                              !.message_json = FALSE, !.has_records = FALSE],
      [SqsRecord(<<>>) EXCEPT !.has_message = FALSE, !.message_json = FALSE,
                              !.has_records = FALSE],
      [SqsRecord(<<>>) EXCEPT !.message_json = FALSE, !.has_records = FALSE],
      [SqsRecord(<<>>) EXCEPT !.has_records = FALSE] }

\* sqs_records that count for w items of the batch (the sqs_record is one
\* item, each of its notifications one more), with notifications from recs
\* and the undecodable ones from undecodable
SqsRecordsOfSize(w, undecodable, recs) ==
    {SqsRecord(rs) : rs \in [1..(w - 1) -> recs]}
        \cup (IF w = 1 THEN undecodable ELSE {})

RECURSIVE EventsOfSize(_, _, _)
EventsOfSize(n, undecodable, recs) ==
    IF n = 0 THEN {<<>>}
    ELSE UNION { {<<r>> \o rest : r \in SqsRecordsOfSize(w, undecodable, recs),
                                  rest \in EventsOfSize(n - w, undecodable, recs)}
                 : w \in 1..n }

\* batches of at most MaxItems items
EventsOver(undecodable, recs) ==
    UNION {EventsOfSize(n, undecodable, recs) : n \in 0..MaxItems}

\* the batches looked at hold one kind of defect at most, any number of
\* times: one kind of undecodable sqs_record, or one kind of notification
\* that lacks a field
Events ==
    UNION ({EventsOver({u}, WellFormedRecords) : u \in UndecodableSqsRecords}
           \cup {EventsOver({}, WellFormedRecords \cup {m}) : m \in MalformedRecords})

\* the batches without a defect
SoundEvents == EventsOver({}, WellFormedRecords)

(***************************************************************************)
(* lambda_handler, lines 217-230: unwrapping                               *)
(***************************************************************************)
NoError == <<>>

JsonDecodeMessage == "Expecting value: line 1 column 1 (char 0)"

\* the exception lines 220-226 raise on sqs_record r (NoError when none)
UnwrapError(r) ==
    IF ~r.body_json THEN <<JsonDecodeMessage>>
    ELSE IF ~r.has_message THEN <<"'Message'">>
    ELSE IF ~r.message_json THEN <<JsonDecodeMessage>>
    ELSE IF ~r.has_records THEN <<"'Records'">>
    ELSE NoError

\* the KeyError lines 227-230 raise on s3_record n (NoError when none)
FieldError(n) ==
    IF ~n.has_bucket THEN <<"'bucket'">>
    ELSE IF ~n.has_key THEN <<"'key'">>
    ELSE IF ~n.has_time THEN <<"'eventTime'">>
    ELSE NoError

\* urllib.parse.unquote_plus, for the escapes the keys of the model use
PercentCodes ==
    (<<"2", "0">> :> " ") @@ (<<"2", "B">> :> "+") @@ (<<"2", "b">> :> "+")
        @@ (<<"2", "5">> :> "%") @@ (<<"2", "F">> :> "/")

RECURSIVE Unquote(_)
Unquote(s) ==
    IF s = <<>> THEN <<>>
    ELSE IF s[1] = "%" /\ Len(s) >= 3 /\ <<s[2], s[3]>> \in DOMAIN PercentCodes
    THEN <<PercentCodes[<<s[2], s[3]>>]>> \o Unquote(SubSeq(s, 4, Len(s)))
    ELSE <<s[1]>> \o Unquote(Tail(s))

\* a key decoded a second time
UnquotePlusTwice(s) ==
    LET PlusToSpace(t) == [k \in 1..Len(t) |-> IF t[k] = "+" THEN " " ELSE t[k]]
    IN  Unquote(PlusToSpace(Unquote(PlusToSpace(s))))

UnquotePlus(s) == Unquote([k \in 1..Len(s) |-> IF s[k] = "+" THEN " " ELSE s[k]])

(***************************************************************************)
(* What the services can answer.                                           *)
(***************************************************************************)
PdfType == <<"a", "p", "p", "l", "i", "c", "a", "t", "i", "o", "n", "/", "p", "d", "f">>

OctetStream == <<"a", "p", "p", "l", "i", "c", "a", "t", "i", "o", "n", "/", "o", "c", "t", "e", "t", "-", "s", "t", "r", "e", "a", "m">>

\* what can be stored under "a b": a two-page PDF, that upload cut short, plain
\* bytes stored without a ContentType
StoredObjects ==
    { [Body |-> <<"%PDF", "page", "page", "%%EOF">>, has_type |-> TRUE,
       ContentType |-> PdfType],
      [Body |-> <<"%PDF", "page">>, has_type |-> TRUE, ContentType |-> PdfType],
      [Body |-> <<"h", "i">>, has_type |-> FALSE, ContentType |-> <<>>] }

\* the bucket holds one object, under "a b"; there is none under any other key
BucketStates == {(<<"a", " ", "b">> :> obj) : obj \in StoredObjects}

\* completions the model can answer with: a fenced object, a bare object whose
\* fields collide with the fixed fields bucket and id, prose, a bare number
Completions ==
    { JsonFence \o <<"\n", "{", "\"", "a", "\"", ":", "1", "}", "\n">> \o Fence,
      <<"{", "\"", "b", "u", "c", "k", "e", "t", "\"", ":", "\"", "o", "\"", ",", "\"", "i", "d", "\"", ":", "\"", "7", "\"", "}">>,
      <<"x">>,
      <<"1">> }

\* parse_json_response on each of them (line 119)
ParsedCompletions == [text \in Completions |-> ParseJsonResponse(text)]

\* the packaged resources: as deployed, or with one of them broken (schema.json
\* missing or not JSON; prompt.txt missing; prompt.txt with a placeholder that
\* format() cannot fill)
FilesStates ==
    { [schema |-> "ok", prompt |-> "ok"],
      [schema |-> "unreadable", prompt |-> "ok"],
      [schema |-> "ok", prompt |-> "missing"],
      [schema |-> "ok", prompt |-> "bad_placeholder"] }

FilesAsDeployed == [schema |-> "ok", prompt |-> "ok"]

\* the invocations looked at: any batch with the resources as deployed, a
\* batch without a defect with a broken package
Invocations ==
    [event : Events, files : {FilesAsDeployed}]
        \cup [event : SoundEvents, files : FilesStates]

(***************************************************************************)
(* calculate_file_hash, get_page_count                                     *)
(***************************************************************************)
\* hashlib.sha256(content).hexdigest(): one digest per byte sequence
CalculateFileHash(body) == <<"sha256">> \o body

LowerChar(c) ==
    CASE c = "A" -> "a" [] c = "B" -> "b" [] c = "C" -> "c" [] c = "D" -> "d"
      [] c = "E" -> "e" [] c = "F" -> "f" [] c = "G" -> "g" [] c = "H" -> "h"
      [] c = "I" -> "i" [] c = "J" -> "j" [] c = "K" -> "k" [] c = "L" -> "l"
      [] c = "M" -> "m" [] c = "N" -> "n" [] c = "O" -> "o" [] c = "P" -> "p"
      [] c = "Q" -> "q" [] c = "R" -> "r" [] c = "S" -> "s" [] c = "T" -> "t"
      [] c = "U" -> "u" [] c = "V" -> "v" [] c = "W" -> "w" [] c = "X" -> "x"
      [] c = "Y" -> "y" [] c = "Z" -> "z" [] OTHER -> c

Lower(s) == [k \in 1..Len(s) |-> LowerChar(s[k])]

\* PdfReader(body).pages: readable when the body opens with the header and
\* closes with the end-of-file marker
PdfReadable(body) ==
    /\ Len(body) >= 2
    /\ body[1] = "%PDF"
    /\ body[Len(body)] = "%%EOF"

PdfPages(body) == Cardinality({k \in 1..Len(body) : body[k] = "page"})

\* a get_page_count that counts the pages it finds in any payload
GetPageCountOfAnything(body, content_type) == <<"int", PdfPages(body)>>

\* lines 38-47
GetPageCount(body, content_type) ==
    IF Contains(Lower(content_type), <<"p", "d", "f">>)
    THEN IF PdfReadable(body) THEN <<"int", PdfPages(body)>> ELSE None
    ELSE None

(***************************************************************************)
(* process_document, lines 175-197: the record                             *)
(***************************************************************************)
F_id == <<"i", "d">>
F_document_name == <<"d", "o", "c", "u", "m", "e", "n", "t", "_", "n", "a", "m", "e">>
F_bucket == <<"b", "u", "c", "k", "e", "t">>
F_upload_time == <<"u", "p", "l", "o", "a", "d", "_", "t", "i", "m", "e">>
F_processing_time == <<"p", "r", "o", "c", "e", "s", "s", "i", "n", "g", "_", "t", "i", "m", "e">>
F_file_hash == <<"f", "i", "l", "e", "_", "h", "a", "s", "h">>
F_file_size == <<"f", "i", "l", "e", "_", "s", "i", "z", "e">>
F_content_type == <<"c", "o", "n", "t", "e", "n", "t", "_", "t", "y", "p", "e">>
F_page_count == <<"p", "a", "g", "e", "_", "c", "o", "u", "n", "t">>

\* datetime.utcnow().isoformat()
UtcNowIso == <<"n", "o", "w">>

DigitChar(n) ==
    CASE n = 0 -> "0" [] n = 1 -> "1" [] n = 2 -> "2" [] n = 3 -> "3" [] n = 4 -> "4"
      [] n = 5 -> "5" [] n = 6 -> "6" [] n = 7 -> "7" [] n = 8 -> "8" [] n = 9 -> "9"

\* str(uuid.uuid4()) for the n-th value drawn: never the same value twice
Uuid4Str(n) == <<"u", "u", "i", "d", "-">> \o (IF n >= 10 THEN <<DigitChar(n \div 10)>> ELSE <<>>)
                   \o <<DigitChar(n % 10)>>

\* the dict literal of lines 179-188
FixedFields(l, record_id) ==
    (F_id :> <<"str", record_id>>)
        @@ (F_document_name :> <<"str", l.key>>)
        @@ (F_bucket :> <<"str", l.bucket>>)
        @@ (F_upload_time :> <<"str", l.upload_time>>)
        @@ (F_processing_time :> <<"str", UtcNowIso>>)
        @@ (F_file_hash :> <<"str", l.file_hash>>)
        @@ (F_file_size :> <<"int", l.document_size>>)
        @@ (F_content_type :> <<"str", l.content_type>>)

\* lines 191-192
WithPageCount(rec, page_count) ==
    IF page_count # None
    THEN [n \in (DOMAIN rec) \cup {F_page_count} |->
            IF n = F_page_count THEN page_count ELSE rec[n]]
    ELSE rec

\* lines 196-197 with the extracted properties placed under the fixed fields
MergeFixedWins(rec, props) ==
    [n \in (DOMAIN rec) \cup (DOMAIN props) |->
        IF n \in DOMAIN rec THEN rec[n] ELSE props[n]]

\* lines 196-197: record[prop_name] = prop_value for every extracted property
MergeProperties(rec, props) ==
    [n \in (DOMAIN rec) \cup (DOMAIN props) |->
        IF n \in DOMAIN props THEN props[n] ELSE rec[n]]

BuildRecord(l, record_id) ==
    MergeProperties(WithPageCount(FixedFields(l, record_id), l.page_count),
                    l.extracted_properties[2])

(***************************************************************************)
(* process_document as steps, each ending at the next service call.  An    *)
(* exception leaves through Raise: every one of them is an Exception, so   *)
(* the except clause of lambda_handler at lines 239-246 takes it.          *)
(***************************************************************************)
NoLocals ==
    [bucket |-> <<>>, key |-> <<>>, upload_time |-> <<>>,
     document_content |-> <<>>, content_type |-> <<>>, document_size |-> 0,
     file_hash |-> <<>>, page_count |-> None, extracted_properties |-> None,
     record_id |-> <<>>, record |-> EmptyDict]

\* the stage tags lines 122, 155 and 204 put before the cause
DownloadTag == "Failed to download document from S3: "
InvokeTag == "Failed to invoke Bedrock with document: "
StoreTag == "Failed to store record in DynamoDB: "

\* an except clause that leaves the loop over the s3_records
RaiseAndBreak(calls, stage, message) ==
    /\ errors' = Append(errors, [status |-> "error", document |-> loc.key,
                                 error |-> message])
    /\ log' = log \o calls \o <<<<"raised", i, j, stage>>>>
    /\ j' = Len(event[i].Records) + 1
    /\ pc' = "s3_loop"
    /\ loc' = NoLocals
    /\ UNCHANGED <<results, table>>

\* process_document raises Exception(message) at the given stage, after the
\* given calls; lines 239-246 record it and the loop of line 226 goes on
Raise(calls, stage, message) ==
    /\ errors' = Append(errors, [status |-> "error", document |-> loc.key,
                                 error |-> message])
    /\ log' = log \o calls \o <<<<"raised", i, j, stage>>>>
    /\ j' = j + 1
    /\ pc' = "s3_loop"
    /\ loc' = NoLocals
    /\ UNCHANGED <<results, table>>

\* the exception lines 164-168 raise with the packaged files as they are
\* (NoError when none): load_schema, load_prompt_template, str.format
ResourceError ==
    IF files.schema = "unreadable"
    THEN <<"Failed to load schema from schema.json: ", "No such file or directory">>
    ELSE IF files.prompt = "missing"
    THEN <<"Failed to load prompt from prompt.txt: ", "No such file or directory">>
    ELSE IF files.prompt = "bad_placeholder"
    THEN <<"'field'">>
    ELSE NoError

\* the stage of lines 164-168 that raises it
ResourceStage == IF files.prompt = "bad_placeholder" THEN "render" ELSE "load"

\* the calls of lines 164-165 that are reached
ResourceLoads ==
    IF files.schema # "ok" THEN <<<<"load_schema">>>>
    ELSE <<<<"load_schema">>, <<"load_prompt_template">>>>

\* lines 149-168: get_object, the hash, the page count, the prompt
Download ==
    /\ pc = "download"
    /\ LET get == <<"get_object", loc.bucket, loc.key>>
       IN  IF loc.key \notin DOMAIN s3objects
           THEN Raise(<<get>>, "download", <<DownloadTag, "NoSuchKey">>)
           ELSE IF ResourceError # NoError
           THEN Raise(<<get>> \o ResourceLoads, ResourceStage, ResourceError)
           ELSE LET obj == s3objects[loc.key]
                    ct  == IF obj.has_type THEN obj.ContentType ELSE OctetStream
                IN  /\ loc' = [loc EXCEPT
                                 !.document_content = obj.Body,
                                 !.content_type = ct,
                                 !.document_size = Len(obj.Body),
                                 !.file_hash = CalculateFileHash(obj.Body),
                                 !.page_count = GetPageCount(obj.Body, ct)]
                    /\ log' = log \o <<get>> \o ResourceLoads
                    /\ pc' = "invoke"
                    /\ UNCHANGED <<j, results, errors, table>>
    /\ UNCHANGED <<event, files, s3objects, i, uuids, response, parseVars>>

\* an invoke_bedrock_with_document that calls the model a second time when the
\* first call fails
InvokeBedrockRetries ==
    /\ pc = "invoke"
    /\ \/ /\ Raise(<<<<"invoke_model">>, <<"invoke_model">>>>, "invoke",
                   <<InvokeTag, "ThrottlingException">>)
          /\ UNCHANGED uuids
       \/ \E text \in Completions :
            LET r == ParsedCompletions[text]
                l == [loc EXCEPT !.extracted_properties = r.val,
                                 !.record_id = Uuid4Str(uuids + 1)]
            IN  IF ~r.ok
                THEN /\ Raise(<<<<"invoke_model">>>>, "decode",
                              <<InvokeTag, JsonDecodeMessage>>)
                     /\ UNCHANGED uuids
                ELSE /\ uuids' = uuids + 1
                     /\ IF r.val[1] # "obj"
                        THEN Raise(<<<<"invoke_model">>>>, "assemble",
                                   <<"'", r.val[1], "' object has no attribute 'items'">>)
                        ELSE /\ loc' = [l EXCEPT !.record = BuildRecord(l, l.record_id)]
                             /\ log' = Append(log, <<"invoke_model">>)
                             /\ pc' = "put"
                             /\ UNCHANGED <<j, results, errors, table>>
    /\ UNCHANGED <<event, files, s3objects, i, response, parseVars>>

\* lines 173-197: invoke_bedrock_with_document (lines 78-122), the uuid, the
\* record; .items() needs a dict
InvokeBedrock ==
    /\ pc = "invoke"
    /\ \/ /\ Raise(<<<<"invoke_model">>>>, "invoke",
                   <<InvokeTag, "ThrottlingException">>)
          /\ UNCHANGED uuids
       \/ \E text \in Completions :
            LET r == ParsedCompletions[text]
                l == [loc EXCEPT !.extracted_properties = r.val,
                                 !.record_id = Uuid4Str(uuids + 1)]
            IN  IF ~r.ok
                THEN /\ Raise(<<<<"invoke_model">>>>, "decode",
                              <<InvokeTag, JsonDecodeMessage>>)
                     /\ UNCHANGED uuids
                ELSE /\ uuids' = uuids + 1
                     /\ IF r.val[1] # "obj"
                        THEN Raise(<<<<"invoke_model">>>>, "assemble",
                                   <<"'", r.val[1], "' object has no attribute 'items'">>)
                        ELSE /\ loc' = [l EXCEPT !.record = BuildRecord(l, l.record_id)]
                             /\ log' = Append(log, <<"invoke_model">>)
                             /\ pc' = "put"
                             /\ UNCHANGED <<j, results, errors, table>>
    /\ UNCHANGED <<event, files, s3objects, i, response, parseVars>>

\* a put_item that stores the item and then reports a failure
PutItemWritesThenFails ==
    /\ pc = "put"
    /\ \/ /\ errors' = Append(errors, [status |-> "error", document |-> loc.key,
                                       error |-> <<StoreTag,
                                                   "ProvisionedThroughputExceededException">>])
          /\ table' = Append(table, loc.record)
          /\ log' = log \o <<<<"put_item", loc.record_id, "ok">>, <<"raised", i, j, "store">>>>
          /\ UNCHANGED results
       \/ /\ table' = Append(table, loc.record)
          /\ results' = Append(results, [status |-> "success", document |-> loc.key,
                                         record_id |-> loc.record[F_id]])
          /\ log' = log \o <<<<"put_item", loc.record_id, "ok">>, <<"returned", i, j>>>>
          /\ UNCHANGED errors
    /\ j' = j + 1
    /\ pc' = "s3_loop"
    /\ loc' = NoLocals
    /\ UNCHANGED <<event, files, s3objects, i, uuids, response, parseVars>>

\* a handler that puts the newest success entry first
PutItemPrepends ==
    /\ pc = "put"
    /\ \/ Raise(<<<<"put_item", loc.record_id, "error">>>>, "store",
                <<StoreTag, "ProvisionedThroughputExceededException">>)
       \/ /\ table' = Append(table, loc.record)
          /\ results' = <<[status |-> "success", document |-> loc.key,
                           record_id |-> loc.record[F_id]]>> \o results
          /\ log' = log \o <<<<"put_item", loc.record_id, "ok">>, <<"returned", i, j>>>>
          /\ j' = j + 1
          /\ pc' = "s3_loop"
          /\ loc' = NoLocals
          /\ UNCHANGED errors
    /\ UNCHANGED <<event, files, s3objects, i, uuids, response, parseVars>>

\* lines 200-206: put_item, return record; lines 234-238: the success entry
PutItem ==
    /\ pc = "put"
    /\ \/ Raise(<<<<"put_item", loc.record_id, "error">>>>, "store",
                <<StoreTag,
                  "ProvisionedThroughputExceededException">>)
       \/ /\ table' = Append(table, loc.record)
          /\ results' = Append(results, [status |-> "success", document |-> loc.key,
                                         record_id |-> loc.record[F_id]])
          /\ log' = log \o <<<<"put_item", loc.record_id, "ok">>, <<"returned", i, j>>>>
          /\ j' = j + 1
          /\ pc' = "s3_loop"
          /\ loc' = NoLocals
          /\ UNCHANGED errors
    /\ UNCHANGED <<event, files, s3objects, i, uuids, response, parseVars>>

\* lines 176-197 alone, on the locals as they stand (AssembleSpec)
AssembleRecord ==
    /\ pc = "assemble"
    /\ loc' = [loc EXCEPT !.record = BuildRecord(loc, loc.record_id)]
    /\ pc' = "put"
    /\ UNCHANGED <<event, files, s3objects, i, j, results, errors, table, uuids, log, response, parseVars>>

(***************************************************************************)
(* lambda_handler                                                          *)
(***************************************************************************)
\* an unwrap failure that ends the loop over the sqs_records
UnwrapEnvelopeFailStops ==
    /\ pc = "sqs_loop"
    /\ i <= Len(event)
    /\ IF UnwrapError(event[i]) # NoError
       THEN /\ errors' = Append(errors, [status |-> "error", error |-> UnwrapError(event[i])])
            /\ log' = Append(log, <<"envelope_failed", i>>)
            /\ i' = Len(event) + 1
            /\ UNCHANGED <<pc, j>>
       ELSE /\ pc' = "s3_loop"
            /\ j' = 1
            /\ UNCHANGED <<errors, i, log>>
    /\ UNCHANGED <<event, files, s3objects, results, loc, table, uuids, response, parseVars>>

\* lines 217-226 for sqs_record i; a failure is caught at lines 248-254
UnwrapEnvelope ==
    /\ pc = "sqs_loop"
    /\ i <= Len(event)
    /\ IF UnwrapError(event[i]) # NoError
       THEN /\ errors' = Append(errors, [status |-> "error", error |-> UnwrapError(event[i])])
            /\ log' = Append(log, <<"envelope_failed", i>>)
            /\ i' = i + 1
            /\ UNCHANGED <<pc, j>>
       ELSE /\ pc' = "s3_loop"
            /\ j' = 1
            /\ UNCHANGED <<errors, i, log>>
    /\ UNCHANGED <<event, files, s3objects, results, loc, table, uuids, response, parseVars>>

\* an except clause for the missing field that forgets the success entries made
\* so far
NextNotificationDropsEarlier ==
    /\ pc = "s3_loop"
    /\ j <= Len(event[i].Records)
    /\ LET n == event[i].Records[j]
       IN  IF FieldError(n) # NoError
           THEN /\ errors' = Append(errors, [status |-> "error", error |-> FieldError(n)])
                /\ results' = <<>>
                /\ log' = Append(log, <<"envelope_failed", i>>)
                /\ i' = i + 1
                /\ pc' = "sqs_loop"
                /\ UNCHANGED loc
           ELSE /\ loc' = [NoLocals EXCEPT !.bucket = n.bucket,
                                           !.key = UnquotePlus(n.key),
                                           !.upload_time = n.eventTime]
                /\ log' = Append(log, <<"process_document", i, j>>)
                /\ pc' = "download"
                /\ UNCHANGED <<errors, i, results>>
    /\ UNCHANGED <<event, files, s3objects, j, table, uuids, response, parseVars>>

\* lines 226-233 for s3_record j: read its fields and call process_document; a
\* missing field is caught at lines 248-254 and ends the envelope
NextNotification ==
    /\ pc = "s3_loop"
    /\ j <= Len(event[i].Records)
    /\ LET n == event[i].Records[j]
       IN  IF FieldError(n) # NoError
           THEN /\ errors' = Append(errors, [status |-> "error", error |-> FieldError(n)])
                /\ log' = Append(log, <<"envelope_failed", i>>)
                /\ i' = i + 1
                /\ pc' = "sqs_loop"
                /\ UNCHANGED loc
           ELSE /\ loc' = [NoLocals EXCEPT !.bucket = n.bucket,
                                           !.key = UnquotePlus(n.key),
                                           !.upload_time = n.eventTime]
                /\ log' = Append(log, <<"process_document", i, j>>)
                /\ pc' = "download"
                /\ UNCHANGED <<errors, i>>
    /\ UNCHANGED <<event, files, s3objects, j, results, table, uuids, response, parseVars>>

\* the for loop of line 226 is exhausted
EnvelopeDone ==
    /\ pc = "s3_loop"
    /\ j > Len(event[i].Records)
    /\ i' = i + 1
    /\ pc' = "sqs_loop"
    /\ UNCHANGED <<event, files, s3objects, j, results, errors, loc, table, uuids, log, response, parseVars>>

\* a response that keeps the success entries only when nothing failed
ReturnResponseDropsResults ==
    /\ pc = "sqs_loop"
    /\ i > Len(event)
    /\ response' = [statusCode |-> IF errors = <<>> THEN 200 ELSE 207,
                    body |-> [processed |-> Len(results), errors |-> Len(errors),
                              results |-> IF errors = <<>> THEN results ELSE <<>>,
                              errors_detail |-> errors]]
    /\ pc' = "done"
    /\ UNCHANGED <<event, files, s3objects, i, j, results, errors, loc, table, uuids, log, parseVars>>

\* a response whose processed counts every item, failed or not
ReturnResponseCountsItems ==
    /\ pc = "sqs_loop"
    /\ i > Len(event)
    /\ response' = [statusCode |-> IF errors = <<>> THEN 200 ELSE 207,
                    body |-> [processed |-> Len(results) + Len(errors),
                              errors |-> Len(errors),
                              results |-> results, errors_detail |-> errors]]
    /\ pc' = "done"
    /\ UNCHANGED <<event, files, s3objects, i, j, results, errors, loc, table, uuids, log, parseVars>>

\* lines 256-264
ReturnResponse ==
    /\ pc = "sqs_loop"
    /\ i > Len(event)
    /\ response' = [statusCode |-> IF errors = <<>> THEN 200 ELSE 207,
                    body |-> [processed |-> Len(results), errors |-> Len(errors),
                              results |-> results, errors_detail |-> errors]]
    /\ pc' = "done"
    /\ UNCHANGED <<event, files, s3objects, i, j, results, errors, loc, table, uuids, log, parseVars>>

NotParsed == [ok |-> FALSE, val |-> <<"pending">>]

NoResponse == [statusCode |-> 0, body |-> [processed |-> 0, errors |-> 0,
                                           results |-> <<>>, errors_detail |-> <<>>]]

\* lines 213-214, and nothing in flight
HandlerStart ==
    /\ i = 1
    /\ j = 0
    /\ results = <<>>
    /\ errors = <<>>
    /\ loc = NoLocals
    /\ table = <<>>
    /\ uuids = 0
    /\ log = <<>>
    /\ response = NoResponse

\* no handler invocation under way
HandlerIdle ==
    /\ event = <<>>
    /\ files = FilesAsDeployed
    /\ s3objects = <<>>
    /\ pc = "idle"
    /\ HandlerStart

Init ==
    /\ \E inv \in Invocations : event = inv.event /\ files = inv.files
    /\ s3objects \in BucketStates
    /\ pc = "sqs_loop"
    /\ HandlerStart
    /\ content = <<>>
    /\ parsed = NotParsed
    /\ ppc = "idle"

Next ==
    \/ UnwrapEnvelope
    \/ NextNotification
    \/ EnvelopeDone
    \/ Download
    \/ InvokeBedrock
    \/ PutItem
    \/ ReturnResponse

Spec == Init /\ [][Next]_vars

(***************************************************************************)
(* Record assembly on its own: process_document stands at line 176 with    *)
(* any choice of extracted property names, for each object of the bucket.  *)
(***************************************************************************)
FixedNames ==
    {F_id, F_document_name, F_bucket, F_upload_time, F_processing_time,
     F_file_hash, F_file_size, F_content_type, F_page_count}

ExtractedValue == <<"str", <<"e", "x", "t", "r", "a", "c", "t", "e", "d">>>>

AssembleInit ==
    /\ event = <<SqsRecord(<<S3Record(<<"a", "+", "b">>)>>)>>
    /\ files = FilesAsDeployed
    /\ s3objects \in BucketStates
    /\ pc = "assemble"
    /\ i = 1
    /\ j = 1
    /\ results = <<>>
    /\ errors = <<>>
    /\ table = <<>>
    /\ uuids = 1
    /\ response = NoResponse
    /\ log = <<<<"process_document", 1, 1>>, <<"get_object", BucketName, <<"a", " ", "b">>>>,
               <<"load_schema">>, <<"load_prompt_template">>, <<"invoke_model">>>>
    /\ \E names \in SUBSET (FixedNames \cup {<<"a">>}) :
          LET obj == s3objects[<<"a", " ", "b">>]
              ct  == IF obj.has_type THEN obj.ContentType ELSE OctetStream
          IN  loc = [NoLocals EXCEPT
                       !.bucket = BucketName, !.key = <<"a", " ", "b">>,
                       !.upload_time = EventTime,
                       !.document_content = obj.Body,
                       !.content_type = ct,
                       !.document_size = Len(obj.Body),
                       !.file_hash = CalculateFileHash(obj.Body),
                       !.page_count = GetPageCount(obj.Body, ct),
                       !.extracted_properties = <<"obj", [n \in names |-> ExtractedValue]>>,
                       !.record_id = Uuid4Str(1)]
    /\ content = <<>>
    /\ parsed = NotParsed
    /\ ppc = "idle"

AssembleNext == AssembleRecord

AssembleSpec == AssembleInit /\ [][AssembleNext]_vars

(***************************************************************************)
(* Completion texts: concatenations of at most MaxSegs segments.           *)
(***************************************************************************)
\* {"a":1}
ObjA1 == <<"{", "\"", "a", "\"", ":", "1", "}">>

\* a fence, a JSON-tagged fence, the object bare and on a line of its own,
\* a word of prose, a double quote
Segments ==
    { Fence, JsonFence, ObjA1, <<"\n">> \o ObjA1 \o <<"\n">>, <<"x">>, <<"\"">> }

RECURSIVE TextsUpTo(_)
TextsUpTo(n) ==
    IF n = 0 THEN {<<>>}
    ELSE LET shorter == TextsUpTo(n - 1)
         IN  shorter \cup {t \o g : t \in shorter, g \in Segments}

Texts == TextsUpTo(MaxSegs)

ParseInit ==
    /\ content \in Texts
    /\ parsed = NotParsed
    /\ ppc = "call"
    /\ HandlerIdle

\* one call of parse_json_response on the completion text
ParseCall ==
    /\ ppc = "call"
    /\ parsed' = ParseJsonResponse(content)
    /\ ppc' = "returned"
    /\ UNCHANGED <<content, handlerVars>>

ParseNext == ParseCall

ParseSpec == ParseInit /\ [][ParseNext]_vars

(***************************************************************************)
(* Claims about parse_json_response, checked under ParseSpec.              *)
(***************************************************************************)
\* positions (0-based) where marker m occurs in text t
Occurrences(t, m) == {p \in 0..Len(t) : MatchAt(t, m, p)}

RECURSIVE TrimLeft(_), TrimRight(_)
TrimLeft(s) ==
    IF s # <<>> /\ Head(s) \in Whitespace THEN TrimLeft(Tail(s)) ELSE s

TrimRight(s) ==
    IF s # <<>> /\ s[Len(s)] \in Whitespace
    THEN TrimRight(SubSeq(s, 1, Len(s) - 1)) ELSE s

\* the characters of t from index a up to, not including, index b
Between(t, a, b) == [k \in 1..(b - a) |-> t[a + k]]

\* the fence markers of t at or after index a
ClosersFrom(t, a) == {p \in Occurrences(t, Fence) : p >= a}

\* the trimmed text between index a and the next fence marker
FencedBlock(t, a) == TrimRight(TrimLeft(Between(t, a, Min(ClosersFrom(t, a)))))

\* C7: when the fence-derived substring does not parse but the full original
\* text does, the call returns the JSON value of the full original text; a
\* decode error is raised only when both fail to parse.
C7_FallbackToFullText ==
    ppc = "returned" =>
        LET sub  == JsonLoads(FenceCandidate(content))
            full == JsonLoads(content)
        IN  /\ (~sub.ok /\ full.ok) => parsed = full
            /\ ~parsed.ok => (~sub.ok /\ ~full.ok)

\* the decoding of {"a":1}
ParsedA1 == [ok |-> TRUE, val |-> <<"obj", [n \in {<<"a">>} |-> <<"int", 1>>]>>]

\* C8: the candidate handed to the JSON decoder is the trimmed block between
\* the first JSON-tagged fence (after its tag) and the next fence when there
\* is a JSON-tagged fence, even behind an earlier generic fence; else the
\* trimmed block between the first generic fence and the next fence; else the
\* whole text; later blocks are not looked at.  The call returns the decoding
\* of that candidate and raises when it does not decode.  So {"a":1} in a
\* JSON-tagged fence, in a generic fence inside prose, and bare all give
\* {a: 1}, and a text without JSON raises.
C8_CandidateSelection ==
    ppc = "returned" =>
        LET tagged == Occurrences(content, JsonFence)
            fences == Occurrences(content, Fence)
        IN  /\ IF tagged # {}
               THEN ClosersFrom(content, Min(tagged) + 7) # {} =>
                       parsed = JsonLoads(FencedBlock(content, Min(tagged) + 7))
               ELSE IF fences # {}
               THEN ClosersFrom(content, Min(fences) + 3) # {} =>
                       parsed = JsonLoads(FencedBlock(content, Min(fences) + 3))
               ELSE parsed = JsonLoads(content)
            /\ content \in { JsonFence \o <<"\n">> \o ObjA1 \o <<"\n">> \o Fence,
                              <<"x">> \o Fence \o ObjA1 \o Fence \o <<"x">>,
                              ObjA1 }
                  => parsed = ParsedA1
            /\ content = <<"x">> => ~parsed.ok

\* a generic fence followed by a closed JSON-tagged block was parsed to {a:1}
C8_Witness ==
    /\ ppc = "returned"
    /\ content = Fence \o JsonFence \o ObjA1 \o Fence
    /\ parsed = ParsedA1

(***************************************************************************)
(* Claims about lambda_handler and process_document, checked under Spec.   *)
(* They read the log: <<"process_document", i, j>> opens the call for      *)
(* s3_record j of sqs_record i, <<"returned", i, j>> and                   *)
(* <<"raised", i, j, stage>> close it, <<"envelope_failed", i>> is the     *)
(* except clause of lines 248-254 for sqs_record i.                        *)
(***************************************************************************)
\* indices of the log entries with the given tag
LogIndices(tag) == {k \in 1..Len(log) : log[k][1] = tag}

\* the <<i, j>> of the log entries with the given tag
LogPositions(tag) == {<<log[k][2], log[k][3]>> : k \in LogIndices(tag)}

\* every <<i, j>> of the event
Positions ==
    {q \in (1..Len(event)) \X (1..MaxItems) : q[2] <= Len(event[q[1]].Records)}

\* the notifications that carry bucket, key and event time, in an sqs_record
\* whose body and Message decode
WellFormedPositions ==
    {q \in Positions : /\ UnwrapError(event[q[1]]) = NoError
                       /\ FieldError(event[q[1]].Records[q[2]]) = NoError}

\* the well-formed notifications with no notification lacking a field before
\* them in their sqs_record
ReachedPositions ==
    {q \in WellFormedPositions :
        \A c \in 1..q[2] : FieldError(event[q[1]].Records[c]) = NoError}

\* q comes after d in the batch
After(d, q) == q[1] > d[1] \/ (q[1] = d[1] /\ q[2] > d[2])

\* the log entries that close a call with a record
ReturnedCalls ==
    LET IsReturned(e) == e[1] = "returned" IN SelectSeq(log, IsReturned)

\* the place in errors of the entry that log entry k appended
ErrorIndex(k) ==
    Cardinality({m \in 1..k : log[m][1] \in {"raised", "envelope_failed"}})

\* the success entry lines 234-238 make for the call that log entry e closes
SuccessEntryOf(entry, e) ==
    /\ entry.status = "success"
    /\ entry.document = UnquotePlus(event[e[2]].Records[e[3]].key)

\* C1: when process_document fails for a notification d, at whatever stage,
\* process_document is still called for every later notification of the same
\* and of every later sqs_record that the loops reach, and the response holds
\* the success entry of every call that returned; three documents with the
\* second failing give processed = 2 and errors = 1.
C1_FailureDoesNotStopSiblings ==
    pc = "done" =>
        /\ \A d \in LogPositions("raised") : \A q \in ReachedPositions :
              After(d, q) => q \in LogPositions("process_document")
        /\ Len(response.body.results) = Len(ReturnedCalls)
        /\ \A k \in 1..Len(ReturnedCalls) :
              SuccessEntryOf(response.body.results[k], ReturnedCalls[k])
        /\ (/\ Len(event) = 1
            /\ Positions = {<<1, 1>>, <<1, 2>>, <<1, 3>>}
            /\ ReachedPositions = Positions
            /\ LogPositions("raised") = {<<1, 2>>})
              => /\ response.body.processed = 2
                 /\ response.body.errors = 1

\* three documents in one sqs_record, the second failed in the decoding of the
\* completion, the first and the third are in the results
C1_Witness ==
    /\ pc = "done"
    /\ Len(event) = 1
    /\ Len(event[1].Records) = 3
    /\ \E k \in LogIndices("raised") : log[k] = <<"raised", 1, 2, "decode">>
    /\ LogPositions("returned") = {<<1, 1>>, <<1, 3>>}
    /\ response.body.processed = 2
    /\ response.body.errors = 1
    /\ response.statusCode = 207

\* the log entries of the call that opens at log index s
CallSegment(s) ==
    LET later == {k \in LogIndices("process_document") : k > s}
        stop  == IF later = {} THEN Len(log) + 1 ELSE Min(later)
    IN  s..(stop - 1)

\* the put_item calls of a segment that the table accepted
AcceptedPuts(seg) == {k \in seg : log[k][1] = "put_item" /\ log[k][3] = "ok"}

\* C2: a call of process_document that returns a record wrote the table
\* exactly once, a call that raised (download, load, render, invoke, decode,
\* assemble, store) wrote nothing, and nothing raises after an accepted put.
C2_OneWriteOnSuccessNoneOnFailure ==
    /\ Len(table) = Cardinality(AcceptedPuts(1..Len(log)))
    /\ \A s \in LogIndices("process_document") :
          LET seg == CallSegment(s)
          IN  /\ (\E k \in seg : log[k][1] = "returned")
                    => Cardinality(AcceptedPuts(seg)) = 1
              /\ (\E k \in seg : log[k][1] = "raised")
                    => AcceptedPuts(seg) = {}
              /\ \A p \in AcceptedPuts(seg) : \A k \in seg :
                    k > p => log[k][1] # "raised"

\* one call was refused by the table and wrote nothing, another call returned
\* and wrote one item
C2_Witness ==
    /\ \E k \in LogIndices("raised") : log[k][4] = "store"
    /\ LogIndices("returned") # {}
    /\ Len(table) = Cardinality(LogIndices("returned"))
    /\ Len(table) < Cardinality(LogIndices("put_item"))

\* C3: every notification that carries bucket, key and event time, in an
\* sqs_record whose body and Message decode, is passed to process_document and
\* gets exactly one entry, whatever the other notifications of its sqs_record
\* look like.
C3_EveryWellFormedNotificationHasOneEntry ==
    pc = "done" =>
        \A q \in WellFormedPositions :
            /\ q \in LogPositions("process_document")
            /\ Cardinality({k \in LogIndices("raised") \cup LogIndices("returned") :
                              <<log[k][2], log[k][3]>> = q}) = 1

\* C4: the status code is 200 exactly when errors_detail is empty and 207
\* otherwise, also when nothing succeeded; the body holds the success entry of
\* every call that returned, whatever errors_detail holds.
C4_StatusAndResults ==
    pc = "done" =>
        /\ response.statusCode = (IF response.body.errors_detail = <<>> THEN 200 ELSE 207)
        /\ Len(response.body.errors_detail)
              = Cardinality(LogIndices("raised") \cup LogIndices("envelope_failed"))
        /\ response.body.errors = Len(response.body.errors_detail)
        /\ Len(response.body.results) = Len(ReturnedCalls)
        /\ response.body.processed = Len(ReturnedCalls)
        /\ \A k \in 1..Len(ReturnedCalls) :
              /\ SuccessEntryOf(response.body.results[k], ReturnedCalls[k])
              /\ response.body.results[k].record_id = table[k][F_id]

\* a 207 whose results keep the success entry next to a failure
C4_Witness ==
    /\ pc = "done"
    /\ response.statusCode = 207
    /\ Len(response.body.results) = 1
    /\ Len(response.body.errors_detail) = 2
    /\ LogPositions("returned") = {<<1, 2>>}

\* C5: an sqs_record whose unwrapping fails (body not JSON, Message missing
\* or not JSON, Records missing) gets exactly one failure entry, without a
\* document key; no document is processed for it; every other sqs_record is
\* still unwrapped and the notifications the loop reaches in it are processed.
C5_EnvelopeFailureIsOneEntry ==
    pc = "done" =>
        \A a \in 1..Len(event) :
            UnwrapError(event[a]) # NoError =>
                /\ Cardinality({k \in LogIndices("envelope_failed") : log[k][2] = a}) = 1
                /\ \A k \in LogIndices("envelope_failed") :
                      log[k][2] = a =>
                          LET entry == response.body.errors_detail[ErrorIndex(k)]
                          IN  /\ "document" \notin DOMAIN entry
                              /\ entry.status = "error"
                              /\ entry.error = UnwrapError(event[a])
                /\ \A q \in LogPositions("process_document") : q[1] # a
                /\ \A b \in (1..Len(event)) \ {a} :
                      /\ UnwrapError(event[b]) # NoError
                            => \E k \in LogIndices("envelope_failed") : log[k][2] = b
                      /\ \A q \in ReachedPositions :
                            q[1] = b => q \in LogPositions("process_document")

\* the first sqs_record has no Message, the document of the second one was
\* processed and stored
C5_Witness ==
    /\ pc = "done"
    /\ Len(event) = 2
    /\ UnwrapError(event[1]) = <<"'Message'">>
    /\ LogPositions("returned") = {<<2, 1>>}
    /\ Len(response.body.errors_detail) = 1
    /\ DOMAIN response.body.errors_detail[1] = {"status", "error"}

\* C6: a schema file or prompt template that is missing or malformed aborts
\* the invocation: the failure is not caught around the document, so no
\* per-document failure entry is made for it and no call of process_document
\* ends with a recorded load or render failure.
C6_ResourceFailureIsFatal ==
    /\ \A k \in LogIndices("raised") : log[k][4] \notin {"load", "render"}
    /\ \A k \in 1..Len(errors) :
          "document" \in DOMAIN errors[k] => errors[k].error # ResourceError

\* C9: every failure of process_document carries the tag of the stage that
\* failed: download for an object-store error, invoke for a transport error,
\* a tag of its own for a completion that does not decode, store for a table
\* error; and no failure is reported without such a tag.
C9_StageTagMatchesStage ==
    \A k \in LogIndices("raised") :
        LET message == errors[ErrorIndex(k)].error
            stage   == log[k][4]
        IN  /\ stage \in {"download", "invoke", "decode", "store"}
            /\ stage = "download" => message[1] = DownloadTag
            /\ stage = "invoke" => message[1] = InvokeTag
            /\ stage = "store" => message[1] = StoreTag
            /\ stage = "decode" =>
                  /\ Len(message) = 2
                  /\ message[1] \notin {DownloadTag, InvokeTag, StoreTag}

(***************************************************************************)
(* Claim about the record assembly, checked under AssembleSpec.            *)
(***************************************************************************)
\* the value line 179-192 give the fixed field n
FixedValue(n) ==
    IF n = F_id THEN <<"str", loc.record_id>>
    ELSE IF n = F_document_name THEN <<"str", loc.key>>
    ELSE IF n = F_bucket THEN <<"str", loc.bucket>>
    ELSE IF n = F_upload_time THEN <<"str", loc.upload_time>>
    ELSE IF n = F_processing_time THEN <<"str", UtcNowIso>>
    ELSE IF n = F_file_hash THEN <<"str", loc.file_hash>>
    ELSE IF n = F_file_size THEN <<"int", loc.document_size>>
    ELSE IF n = F_content_type THEN <<"str", loc.content_type>>
    ELSE loc.page_count

\* C10: the record is the fixed fields overwritten by the extracted
\* properties: every extracted property is a top-level field with the
\* extracted value, also under the name of a fixed field, and every fixed
\* field no extracted property names keeps its fixed value (page_count is
\* there only when a page count was found).
C10_ExtractedOverwritesFixed ==
    pc = "put" =>
        LET props   == loc.extracted_properties[2]
            rec     == loc.record
            present == IF loc.page_count = None THEN FixedNames \ {F_page_count}
                       ELSE FixedNames
        IN  /\ DOMAIN rec = present \cup DOMAIN props
            /\ \A n \in DOMAIN props : rec[n] = props[n]
            /\ \A n \in present \ DOMAIN props : rec[n] = FixedValue(n)

\* a record whose bucket is the extracted one while id is the generated one
C10_Witness ==
    /\ pc = "put"
    /\ DOMAIN loc.extracted_properties[2] = {F_bucket, F_page_count}
    /\ loc.page_count = <<"int", 2>>
    /\ loc.record[F_bucket] = ExtractedValue
    /\ loc.record[F_page_count] = ExtractedValue
    /\ loc.record[F_id] = <<"str", Uuid4Str(1)>>

(***************************************************************************)
(* Claims about identifiers, order, page counts and keys, checked under    *)
(* Spec.                                                                   *)
(***************************************************************************)
\* the put_item calls the table accepted, in order: table[k] is the item of
\* the k-th of them, and its third field is the uuid4 drawn for that call
AcceptedPutCalls ==
    LET IsAccepted(e) == e[1] = "put_item" /\ e[3] = "ok"
    IN  SelectSeq(log, IsAccepted)

\* C11: every stored record carries as id the uuid4 value drawn in its own
\* process_document call, the ids of the stored records are pairwise
\* distinct (also for two notifications of the same object), and the
\* record_id of each success entry is that uuid4 value.
C11_FreshDistinctIds ==
    /\ \A k \in 1..Len(table) :
          table[k][F_id] = <<"str", AcceptedPutCalls[k][2]>>
    /\ \A k, m \in 1..Len(table) : k # m => table[k][F_id] # table[m][F_id]
    /\ \A k \in 1..Len(results) :
          results[k].record_id = <<"str", AcceptedPutCalls[k][2]>>

\* the log entries that open a call of process_document, in order
OpenedCalls ==
    LET IsCall(e) == e[1] = "process_document" IN SelectSeq(log, IsCall)

\* the log entries that appended to errors, in order
FailureEvents ==
    LET IsFailure(e) == e[1] \in {"raised", "envelope_failed"}
    IN  SelectSeq(log, IsFailure)

\* index of the first notification of sqs_record a that lacks a field (0 when
\* the sqs_record itself does not decode)
FirstMalformed(a) ==
    IF UnwrapError(event[a]) # NoError THEN 0
    ELSE Min({c \in 1..Len(event[a].Records) :
                FieldError(event[a].Records[c]) # NoError})

\* the place in the batch of the item a failure event is about
FailurePosition(e) ==
    IF e[1] = "raised" THEN <<e[2], e[3]>> ELSE <<e[2], FirstMalformed(e[2])>>

\* C12: the calls of process_document are made in input order (sqs_record
\* order, then notification order), each call has ended before the next one
\* is made, the entries of results are those of the calls that returned, in
\* input order, and the entries of errors_detail are those of the items that
\* failed, in input order; the response carries both lists in that order.
C12_InputOrder ==
    /\ \A k, m \in 1..Len(OpenedCalls) :
          k < m => After(<<OpenedCalls[k][2], OpenedCalls[k][3]>>,
                         <<OpenedCalls[m][2], OpenedCalls[m][3]>>)
    /\ \A s \in LogIndices("process_document") :
          LET ended == {k \in CallSegment(s) : log[k][1] \in {"raised", "returned"}}
          IN  /\ Cardinality(ended) <= 1
              /\ \A k \in ended : <<log[k][2], log[k][3]>> = <<log[s][2], log[s][3]>>
              /\ (\E k \in LogIndices("process_document") : k > s) => ended # {}
    /\ Len(results) = Len(ReturnedCalls)
    /\ \A k \in 1..Len(results) :
          /\ SuccessEntryOf(results[k], ReturnedCalls[k])
          /\ results[k].record_id = table[k][F_id]
    /\ \A k, m \in 1..Len(ReturnedCalls) :
          k < m => After(<<ReturnedCalls[k][2], ReturnedCalls[k][3]>>,
                         <<ReturnedCalls[m][2], ReturnedCalls[m][3]>>)
    /\ Len(errors) = Len(FailureEvents)
    /\ \A k \in 1..Len(errors) :
          LET e == FailureEvents[k]
          IN  IF e[1] = "raised"
              THEN /\ "document" \in DOMAIN errors[k]
                   /\ errors[k].document = UnquotePlus(event[e[2]].Records[e[3]].key)
              ELSE "document" \notin DOMAIN errors[k]
    /\ \A k, m \in 1..Len(FailureEvents) :
          k < m => After(FailurePosition(FailureEvents[k]),
                         FailurePosition(FailureEvents[m]))
    /\ pc = "done" => /\ response.body.results = results
                      /\ response.body.errors_detail = errors

\* three documents, the second one not in the bucket: the two success entries
\* come in input order, each with the id of its own record
C12_Witness ==
    /\ pc = "done"
    /\ LogPositions("returned") = {<<1, 1>>, <<1, 3>>}
    /\ LogPositions("raised") = {<<1, 2>>}
    /\ Len(response.body.results) = 2
    /\ response.body.results[1].record_id = <<"str", Uuid4Str(1)>>
    /\ response.body.results[2].record_id = <<"str", Uuid4Str(2)>>
    /\ response.body.errors_detail[1].document = <<"k", "+", "1">>

\* the object of the bucket, and whether it is the readable two-page PDF
TheObject == s3objects[<<"a", " ", "b">>]

IsTwoPagePdf(obj) ==
    /\ obj.has_type
    /\ obj.ContentType = PdfType
    /\ obj.Body = <<"%PDF", "page", "page", "%%EOF">>

LiteralKey(k) ==
    IF k = <<"a", "+", "b">> THEN <<"a", " ", "b">>
    ELSE IF k = <<"k", "%", "2", "B", "1">> THEN <<"k", "+", "1">>
    ELSE k

\* the literal key of the notification a log entry with <<i, j>> is about
LiteralKeyAt(e) == LiteralKey(event[e[2]].Records[e[3]].key)

C15_ResourcesLoadedOnce ==
    /\ Cardinality(LogIndices("load_schema")) <= 1
    /\ Cardinality(LogIndices("load_prompt_template")) <= 1

\* the place of a call of process_document in the order of its stages
StageRank(tag) ==
    CASE tag = "get_object" -> 1
      [] tag = "load_schema" -> 2
      [] tag = "load_prompt_template" -> 3
      [] tag = "invoke_model" -> 4
      [] tag = "put_item" -> 5

StageCalls == {"get_object", "load_schema", "load_prompt_template", "invoke_model", "put_item"}

\* C16: one call of process_document goes through download, hash, page
\* count, prompt, model, table in that order and without a retry: at most one
\* get_object, one invoke_model and one put_item; invoke_model only after a
\* get_object that found the object, with the hash and the page count
\* computed; put_item only after an invoke_model whose completion decoded to
\* an object; and the call ends exactly once, returned after an accepted
\* put_item or raised with a stage and a cause.
C16_StageOrderNoRetry ==
    /\ \A s \in LogIndices("process_document") :
          LET seg   == CallSegment(s)
              calls == {k \in seg : log[k][1] \in StageCalls}
              ended == {k \in seg : log[k][1] \in {"raised", "returned"}}
              key   == UnquotePlus(event[log[s][2]].Records[log[s][3]].key)
          IN  /\ \A k, m \in calls :
                    k < m => StageRank(log[k][1]) < StageRank(log[m][1])
              /\ \A k \in calls : log[k][1] = "invoke_model" =>
                    /\ \E m \in calls : m < k /\ log[m][1] = "get_object"
                    /\ key \in DOMAIN s3objects
              /\ \A k \in calls : log[k][1] = "put_item" =>
                    \E m \in calls : m < k /\ log[m][1] = "invoke_model"
              /\ Cardinality(ended) <= 1
              /\ \A e \in ended :
                    /\ \A k \in calls : k < e
                    /\ log[e][1] = "returned" <=> AcceptedPuts(seg) # {}
                    /\ log[e][1] = "raised" => Len(errors[ErrorIndex(e)].error) >= 1
              /\ (pc \in {"sqs_loop", "s3_loop", "done"}) => ended # {}
    /\ pc \in {"invoke", "put"} =>
          /\ loc.file_hash = CalculateFileHash(s3objects[loc.key].Body)
          /\ loc.document_size = Len(s3objects[loc.key].Body)
    /\ pc = "put" => loc.extracted_properties[1] = "obj"

\* a call that went through all six stages next to calls that ended at the
\* download and at the model
C16_Witness ==
    /\ pc = "done"
    /\ \E k \in LogIndices("raised") : log[k][4] = "download"
    /\ \E k \in LogIndices("raised") : log[k][4] = "invoke"
    /\ \E s \in LogIndices("process_document") :
          /\ s + 6 <= Len(log)
          /\ log[s + 1][1] = "get_object"
          /\ log[s + 2][1] = "load_schema"
          /\ log[s + 3][1] = "load_prompt_template"
          /\ log[s + 4][1] = "invoke_model"
          /\ log[s + 5][1] = "put_item"
          /\ log[s + 6][1] = "returned"

LateFieldError ==
    /\ pc = "s3_loop"
    /\ j > 1
    /\ j <= Len(event[i].Records)
    /\ FieldError(event[i].Records[j]) # NoError

\* C18: when a notification lacks the bucket, the key or the event time after
\* earlier notifications of its sqs_record were processed, the step leaves
\* results, the table and the earlier entries of errors as they are, appends
\* exactly one failure entry without a document key, and moves on to the next
\* sqs_record; the response still holds the entries of the earlier documents
\* and every later sqs_record was unwrapped.
C18_LateFieldErrorKeepsEarlier ==
    /\ [][LateFieldError =>
            /\ results' = results
            /\ table' = table
            /\ errors' = Append(errors, [status |-> "error",
                                         error |-> FieldError(event[i].Records[j])])
            /\ i' = i + 1
            /\ pc' = "sqs_loop"]_vars
    /\ [](pc = "done" =>
            \A a \in 1..Len(event) :
                (/\ UnwrapError(event[a]) = NoError
                 /\ \E c \in 2..Len(event[a].Records) :
                       FieldError(event[a].Records[c]) # NoError
                 /\ FieldError(event[a].Records[1]) = NoError)
                => /\ Cardinality({k \in LogIndices("envelope_failed") : log[k][2] = a}) = 1
                   /\ \A c \in 1..(FirstMalformed(a) - 1) :
                         /\ <<a, c>> \in LogPositions("process_document")
                         /\ <<a, c>> \in LogPositions("returned") \cup LogPositions("raised")
                   /\ Len(response.body.results) = Len(ReturnedCalls)
                   /\ Len(response.body.errors_detail) = Len(FailureEvents)
                   /\ \A b \in (a + 1)..Len(event) :
                         /\ UnwrapError(event[b]) # NoError
                               => \E k \in LogIndices("envelope_failed") : log[k][2] = b
                         /\ \A q \in ReachedPositions :
                               q[1] = b => q \in LogPositions("process_document"))

\* the first sqs_record holds a document that was stored and then a
\* notification without an object key; the second sqs_record was reached
C18_Witness ==
    /\ pc = "done"
    /\ Len(event) = 2
    /\ Len(event[1].Records) = 2
    /\ FieldError(event[1].Records[2]) = <<"'key'">>
    /\ LogPositions("returned") = {<<1, 1>>}
    /\ Len(response.body.results) = 1
    /\ Len(table) = 1
    /\ Len(response.body.errors_detail) = 1
    /\ DOMAIN response.body.errors_detail[1] = {"status", "error"}
    /\ i = 3
====
